---------------------------- MODULE Spec2Model ----------------------------
(***************************************************************************)
(* Model of Platform/MCU/STM32F4xx/peripherals/platform_uart.c (RTOS       *)
(* build, i.e. the branches under #ifndef NO_MICO_RTOS).                   *)
(*                                                                         *)
(* Three kinds of actors share the driver fields:                          *)
(*   - tasks calling platform_uart_transmit_bytes / _receive_bytes, which  *)
(*     are modelled statement by statement (one action per source line     *)
(*     that reads or writes shared state);                                 *)
(*   - the interrupt handlers, each one atomic action (a handler is never  *)
(*     preempted by a task);                                               *)
(*   - the DMA streams and the USART, modelled by the Hw* actions.         *)
(*                                                                         *)
(* Interrupts preempt tasks: while an enabled interrupt is pending no task *)
(* statement executes (TaskCanRun).  The races of the driver are therefore *)
(* the ones between two task statements, which is where the hardware may   *)
(* raise an interrupt.                                                     *)
(*                                                                         *)
(* Hardware behaviour the model relies on (STM32F4 reference manual):      *)
(*   - a stream in normal mode clears EN and raises TCIF with its last     *)
(*     item; TEIF clears EN, DMEIF and FEIF do not;                        *)
(*   - NDTR and M0AR are write-protected while EN is set;                  *)
(*   - in circular mode NDTR reloads when it reaches 0;                    *)
(*   - USART SR.TC is set when a frame has been sent and DR was not        *)
(*     refilled; once cleared it stays clear until a frame is sent.        *)
(* The hardware may raise several interrupts for one transfer (an error    *)
(* flag and later transfer complete).                                      *)
(*                                                                         *)
(* Specifications: SpecTx (concurrent transmit callers), SpecRx (one       *)
(* receive caller, buffered or direct mode), SpecDuplex (one caller of     *)
(* either direction), each starting in the state a successful              *)
(* platform_uart_init leaves, and SpecLife (init and deinit as calls on a  *)
(* driver object in zeroed storage, with the receive side in between).     *)
(***************************************************************************)
EXTENDS Integers, Sequences, FiniteSets, TLC

(***************************************************************************)
(* Bounds                                                                  *)
(***************************************************************************)
NumTxTasks  == 2      \* tasks calling transmit concurrently
MaxTxSize   == 2      \* transmit sizes 0..MaxTxSize
MaxTxErrors == 2      \* DMA error events the hardware raises per TX transfer
MaxRingSize == 4      \* ring buffer capacities 1..MaxRingSize
MaxWire     == 5      \* bytes the line delivers in one behaviour
MaxExpect   == 3      \* receive sizes 0..MaxExpect
MaxRxErrors == 1      \* DMA error events the hardware raises per RX transfer
MaxInits    == 2      \* calls of platform_uart_init in one behaviour

(***************************************************************************)
(* Result codes and names                                                  *)
(***************************************************************************)
kNoErr      == "kNoErr"
kGeneralErr == "kGeneralErr"
kParamErr   == "kParamErr"
kTimeoutErr == "kTimeoutErr"

NoTask  == 0
TxTasks == 1..NumTxTasks

\* tx_dma_config.complete_flags / error_flags, and DMA_INTERRUPT_FLAGS
complete_flags      == {"TC"}
error_flags         == {"TE", "DME", "FE"}
DMA_INTERRUPT_FLAGS == {"TC", "TE", "DME", "FE"}

Timeouts == {"zero", "finite", "never"}   \* 0, a deadline, MICO_NEVER_TIMEOUT

MIN(a, b) == IF a < b THEN a ELSE b

VARIABLES
  \* platform_uart_driver_t
  rx_size, tx_size, last_transmit_result, last_receive_result,
  tx_complete, rx_complete, tx_mutex, rx_buffer,
  \* ring_buffer_t pointed to by rx_buffer
  ring,
  \* hardware: DMA streams, USART, interrupt controller
  tx_stream, rx_stream, usart, nvic, uart_pending,
  \* tasks in platform_uart_transmit_bytes
  tx_pc, tx_arg, tx_err,
  \* the task in platform_uart_receive_bytes
  rx_pc, rx_arg, rx_loc,
  \* environment and observation
  wire, rx_out, tx_hist, rx_hist,
  \* where the driver is between platform_uart_init and platform_uart_deinit
  life

driverVars == <<rx_size, tx_size, last_transmit_result, last_receive_result,
                tx_complete, rx_complete, tx_mutex, rx_buffer>>
hwVars     == <<tx_stream, rx_stream, usart, nvic, uart_pending>>
txTaskVars == <<tx_pc, tx_arg, tx_err>>
rxTaskVars == <<rx_pc, rx_arg, rx_loc>>
obsVars    == <<wire, rx_out, tx_hist, rx_hist>>
vars == <<driverVars, ring, hwVars, txTaskVars, rxTaskVars, obsVars, life>>

(***************************************************************************)
(* Helpers                                                                 *)
(***************************************************************************)

\* mico_rtos_set_semaphore on a semaphore created with maximum count 1
mico_rtos_set_semaphore(sem) == MIN(sem + 1, 1)

\* clear_dma_interrupts( stream, flags ): writes the flags to LIFCR/HIFCR
clear_dma_interrupts(stream, flags) ==
  [stream EXCEPT !.flags = stream.flags \ flags]

\* get_dma_irq_status( stream ): the pending flags in LISR/HISR
get_dma_irq_status(stream) == stream.flags

\* uint32_t arithmetic.  A value that wrapped below 0 is kept as the negative
\* number x that stands for the 32-bit value 2^32 + x (the same 32 bits read
\* as a signed number); U32Mod(x, n) is the remainder of that 32-bit value
\* by n, with 2^32 % n computed as (65536 % n)^2 % n.
U32Mod(x, n) ==
  IF x >= 0 THEN x % n
            ELSE ((((65536 % n) * (65536 % n)) % n) + (x % n)) % n

\* ring_buffer_used_space( ring_buffer )
ring_buffer_used_space(rb) ==
  LET head_to_end == rb.size - rb.head
  IN  U32Mod(head_to_end + rb.tail, rb.size)

\* ring_buffer_get_data: the number of contiguous readable bytes at head
ring_buffer_get_data(rb) ==
  LET head_to_end == rb.size - rb.head
  IN  MIN(head_to_end, U32Mod(head_to_end + rb.tail, rb.size))

\* ring_buffer_consume( ring_buffer, bytes_consumed )
ring_buffer_consume(rb, n) == [rb EXCEPT !.head = (rb.head + n) % rb.size]

\* the DMA controller raises its interrupt for a pending flag whose
\* interrupt enable was set by DMA_ITConfig, when the vector is enabled
TxDmaIrqPending ==
  /\ "tx_dma" \in nvic
  /\ (tx_stream.flags \cap tx_stream.ie) # {}

RxDmaIrqPending ==
  /\ "rx_dma" \in nvic
  /\ (rx_stream.flags \cap rx_stream.ie) # {}

UartIrqPending ==
  /\ "uart" \in nvic
  /\ uart_pending

\* a pending enabled interrupt preempts the running task
TaskCanRun == ~TxDmaIrqPending /\ ~RxDmaIrqPending /\ ~UartIrqPending

(***************************************************************************)
(* Initial state: the driver after platform_uart_init                      *)
(***************************************************************************)
\* lines 274, 284: dma_init_structure.DMA_BufferSize = 0xFFFF
DMA_BufferSize == 65535

\* a stream after DMA_DeInit: every register at its reset value
ResetStream == [en |-> FALSE, ndtr |-> 0, flags |-> {}, ie |-> {},
                circ |-> FALSE, m0ar |-> "none"]

\* a stream after DMA_DeInit and DMA_Init( stream, &dma_init_structure ):
\* normal mode, memory address 0, NDTR = DMA_BufferSize
IdleStream == [ResetStream EXCEPT !.ndtr = DMA_BufferSize]

\* the driver after a platform_uart_init that returned kNoErr: the peripheral
\* reference is set, the semaphores and the mutex exist, the USART is enabled
LifeReady(given, n) ==
  [state |-> "ready", peripheral |-> TRUE, rtos |-> TRUE, ue |-> TRUE,
   given |-> given, inits |-> n, err |-> kNoErr, why |-> "ok",
   badread |-> FALSE, arg_ring |-> FALSE, arg_size |-> 0]

\* platform_uart_init( driver, peripheral, config, optional_ring_buffer )
\* with a valid configuration; cap = 0 stands for optional_ring_buffer == NULL
platform_uart_init(cap) ==
  /\ life = LifeReady(cap # 0, 1)
  /\ rx_size = 0
  /\ tx_size = 0
  /\ last_transmit_result = kNoErr
  /\ last_receive_result = kNoErr
  /\ tx_complete = 0
  /\ rx_complete = 0
  /\ tx_mutex = NoTask
  /\ rx_buffer = (cap # 0)
  /\ ring = [size |-> cap, head |-> 0, tail |-> 0,
             buffer |-> [i \in 0..(cap - 1) |-> 0]]
  /\ tx_stream = [IdleStream EXCEPT !.ie = DMA_INTERRUPT_FLAGS]
  /\ rx_stream = IF cap # 0
                   THEN \* receive_bytes( driver, buffer, size, 0 )
                        [IdleStream EXCEPT !.en = TRUE, !.ndtr = cap,
                                           !.circ = TRUE, !.m0ar = "ring"]
                   ELSE [IdleStream EXCEPT !.ie = DMA_INTERRUPT_FLAGS]
  /\ usart = [dmat |-> FALSE, dmar |-> (cap # 0), tc |-> TRUE,
              busy |-> FALSE, rxneie |-> (cap # 0)]
  /\ nvic = IF cap # 0 THEN {"tx_dma", "uart"}
                       ELSE {"tx_dma", "uart", "rx_dma"}
  /\ uart_pending = FALSE

InitTasks ==
  /\ tx_pc = [t \in TxTasks |-> "idle"]
  /\ tx_arg = [t \in TxTasks |-> [data |-> FALSE, size |-> 0]]
  /\ tx_err = [t \in TxTasks |-> kNoErr]
  /\ rx_pc = "idle"
  /\ rx_arg = [data |-> FALSE, size |-> 0, timeout |-> "never"]
  /\ rx_loc = [expected |-> 0, transfer |-> 0, avail |-> 0, copied |-> 0,
               cr_en |-> FALSE, err |-> kNoErr]
  /\ wire = 0
  /\ rx_out = <<>>
  /\ tx_hist = [started |-> FALSE, irqs |-> 0, tc |-> FALSE, err |-> FALSE,
                nerr |-> 0, last |-> "none"]
  /\ rx_hist = [timedout |-> FALSE, got |-> 0, errirq |-> FALSE,
                nerr |-> 0, out0 |-> 0, headw |-> 0, outw |-> 0,
                overrun |-> FALSE, sig |-> 0]

(***************************************************************************)
(* platform_uart_transmit_bytes, statement by statement                    *)
(***************************************************************************)
TxGoto(t, l) == tx_pc' = [tx_pc EXCEPT ![t] = l]

\* a validation that forgets the size
TxValid_DataOnly(t) == tx_arg[t].data

\* line 405: require_action_quiet( ( data_out != NULL ) && ( size != 0 ) )
TxValid(t) == tx_arg[t].data /\ tx_arg[t].size # 0

\* a task calls platform_uart_transmit_bytes( driver, data_out, size )
TxCall(t) ==
  /\ life.state = "ready"
  /\ tx_pc[t] = "idle"
  /\ TaskCanRun
  /\ \E d \in BOOLEAN, s \in 0..MaxTxSize :
       tx_arg' = [tx_arg EXCEPT ![t] = [data |-> d, size |-> s]]
  /\ tx_err' = [tx_err EXCEPT ![t] = kNoErr]
  /\ TxGoto(t, "lock")
  /\ UNCHANGED <<driverVars, ring, hwVars, rxTaskVars, obsVars>>
  /\ UNCHANGED life

\* a lock that is granted whoever holds the mutex
TxMutexFree_NoExclusion(t) == TRUE

\* line 402: mico_rtos_lock_mutex( &driver->tx_mutex )
TxMutexFree(t) == tx_mutex = NoTask

TxLock(t) ==
  /\ tx_pc[t] = "lock"
  /\ TaskCanRun
  /\ TxMutexFree(t)
  /\ tx_mutex' = t
  /\ TxGoto(t, "check")
  /\ UNCHANGED <<rx_size, tx_size, last_transmit_result, last_receive_result,
                 tx_complete, rx_complete, rx_buffer, ring, hwVars, tx_arg,
                 tx_err, rxTaskVars, obsVars>>
  /\ UNCHANGED life

\* line 405: require_action_quiet( data_out != NULL && size != 0, exit, ... )
TxCheck(t) ==
  /\ tx_pc[t] = "check"
  /\ TaskCanRun
  /\ IF TxValid(t)
       THEN TxGoto(t, "clear") /\ UNCHANGED tx_err
       ELSE /\ TxGoto(t, "unlock")
            /\ tx_err' = [tx_err EXCEPT ![t] = kParamErr]
  /\ UNCHANGED <<driverVars, ring, hwVars, tx_arg, rxTaskVars, obsVars>>
  /\ UNCHANGED life

\* line 408: clear_dma_interrupts( tx stream, complete_flags | error_flags )
TxClear(t) ==
  /\ tx_pc[t] = "clear"
  /\ TaskCanRun
  /\ tx_stream' = clear_dma_interrupts(tx_stream, complete_flags \cup error_flags)
  /\ TxGoto(t, "setresult")
  /\ UNCHANGED <<driverVars, ring, rx_stream, usart, nvic, uart_pending,
                 tx_arg, tx_err, rxTaskVars, obsVars>>
  /\ UNCHANGED life

\* line 411: driver->last_transmit_result = kGeneralErr
TxSetResult(t) ==
  /\ tx_pc[t] = "setresult"
  /\ TaskCanRun
  /\ last_transmit_result' = kGeneralErr
  /\ TxGoto(t, "setsize")
  /\ UNCHANGED <<rx_size, tx_size, last_receive_result, tx_complete,
                 rx_complete, tx_mutex, rx_buffer, ring, hwVars, tx_arg,
                 tx_err, rxTaskVars, obsVars>>
  /\ UNCHANGED life

\* line 412: driver->tx_size = size
TxSetSize(t) ==
  /\ tx_pc[t] = "setsize"
  /\ TaskCanRun
  /\ tx_size' = tx_arg[t].size
  /\ TxGoto(t, "setdma")
  /\ UNCHANGED <<rx_size, last_transmit_result, last_receive_result,
                 tx_complete, rx_complete, tx_mutex, rx_buffer, ring, hwVars,
                 tx_arg, tx_err, rxTaskVars, obsVars>>
  /\ UNCHANGED life

\* lines 413-415: CR &= ~CIRC; NDTR = size; M0AR = data_out.  NDTR and M0AR
\* are write-protected by the hardware while the stream is enabled.
TxSetDma(t) ==
  /\ tx_pc[t] = "setdma"
  /\ TaskCanRun
  /\ tx_stream' = IF tx_stream.en
                    THEN tx_stream
                    ELSE [tx_stream EXCEPT !.circ = FALSE,
                                           !.ndtr = tx_arg[t].size,
                                           !.m0ar = "cur"]
  /\ TxGoto(t, "dmareq")
  /\ UNCHANGED <<driverVars, ring, rx_stream, usart, nvic, uart_pending,
                 tx_arg, tx_err, rxTaskVars, obsVars>>
  /\ UNCHANGED life

\* line 417: USART_DMACmd( port, USART_DMAReq_Tx, ENABLE )
TxDmaReq(t) ==
  /\ tx_pc[t] = "dmareq"
  /\ TaskCanRun
  /\ usart' = [usart EXCEPT !.dmat = TRUE]
  /\ TxGoto(t, "cleartc")
  /\ UNCHANGED <<driverVars, ring, tx_stream, rx_stream, nvic, uart_pending,
                 tx_arg, tx_err, rxTaskVars, obsVars>>
  /\ UNCHANGED life

\* a transmit that leaves SR.TC as it was
TxClearTC_Skip(t) ==
  /\ tx_pc[t] = "cleartc"
  /\ TaskCanRun
  /\ TxGoto(t, "start")
  /\ UNCHANGED <<driverVars, ring, hwVars, tx_arg, tx_err, rxTaskVars, obsVars>>
  /\ UNCHANGED life

\* line 418: USART_ClearFlag( port, USART_FLAG_TC )
TxClearTC(t) ==
  /\ tx_pc[t] = "cleartc"
  /\ TaskCanRun
  /\ usart' = [usart EXCEPT !.tc = FALSE]
  /\ TxGoto(t, "start")
  /\ UNCHANGED <<driverVars, ring, tx_stream, rx_stream, nvic, uart_pending,
                 tx_arg, tx_err, rxTaskVars, obsVars>>
  /\ UNCHANGED life

\* line 419: stream->CR |= DMA_SxCR_EN
TxStart(t) ==
  /\ tx_pc[t] = "start"
  /\ TaskCanRun
  /\ tx_stream' = [tx_stream EXCEPT !.en = TRUE]
  /\ tx_hist' = [started |-> TRUE, irqs |-> 0, tc |-> FALSE, err |-> FALSE,
                 nerr |-> 0, last |-> "none"]
  /\ TxGoto(t, "wait")
  /\ UNCHANGED <<driverVars, ring, rx_stream, usart, nvic, uart_pending,
                 tx_arg, tx_err, rxTaskVars, wire, rx_out, rx_hist>>
  /\ UNCHANGED life

\* line 423: mico_rtos_get_semaphore( &driver->tx_complete, MICO_NEVER_TIMEOUT )
TxWait(t) ==
  /\ tx_pc[t] = "wait"
  /\ TaskCanRun
  /\ tx_complete > 0
  /\ tx_complete' = tx_complete - 1
  /\ TxGoto(t, "spin")
  /\ UNCHANGED <<rx_size, tx_size, last_transmit_result, last_receive_result,
                 rx_complete, tx_mutex, rx_buffer, ring, hwVars, tx_arg,
                 tx_err, rxTaskVars, obsVars>>
  /\ UNCHANGED life

\* line 429: while ( ( port->SR & USART_SR_TC ) == 0 ) { }
TxSpin(t) ==
  /\ tx_pc[t] = "spin"
  /\ TaskCanRun
  /\ usart.tc
  /\ TxGoto(t, "dmaoff")
  /\ UNCHANGED <<driverVars, ring, hwVars, tx_arg, tx_err, rxTaskVars, obsVars>>
  /\ UNCHANGED life

\* line 434: USART_DMACmd( port, USART_DMAReq_Tx, DISABLE )
TxDmaOff(t) ==
  /\ tx_pc[t] = "dmaoff"
  /\ TaskCanRun
  /\ usart' = [usart EXCEPT !.dmat = FALSE]
  /\ TxGoto(t, "clearsize")
  /\ UNCHANGED <<driverVars, ring, tx_stream, rx_stream, nvic, uart_pending,
                 tx_arg, tx_err, rxTaskVars, obsVars>>
  /\ UNCHANGED life

\* line 435: driver->tx_size = 0
TxClearSize(t) ==
  /\ tx_pc[t] = "clearsize"
  /\ TaskCanRun
  /\ tx_size' = 0
  /\ TxGoto(t, "readresult")
  /\ UNCHANGED <<rx_size, last_transmit_result, last_receive_result,
                 tx_complete, rx_complete, tx_mutex, rx_buffer, ring, hwVars,
                 tx_arg, tx_err, rxTaskVars, obsVars>>
  /\ UNCHANGED life

\* a transmit that resets the result after reading it
TxReadResult_Reset(t) ==
  /\ tx_pc[t] = "readresult"
  /\ TaskCanRun
  /\ tx_err' = [tx_err EXCEPT ![t] = last_transmit_result]
  /\ last_transmit_result' = kNoErr
  /\ TxGoto(t, "unlock")
  /\ UNCHANGED <<rx_size, tx_size, last_receive_result, tx_complete,
                 rx_complete, tx_mutex, rx_buffer, ring, hwVars, tx_arg,
                 rxTaskVars, obsVars>>
  /\ UNCHANGED life

\* line 436: err = driver->last_transmit_result
TxReadResult(t) ==
  /\ tx_pc[t] = "readresult"
  /\ TaskCanRun
  /\ tx_err' = [tx_err EXCEPT ![t] = last_transmit_result]
  /\ TxGoto(t, "unlock")
  /\ UNCHANGED <<driverVars, ring, hwVars, tx_arg, rxTaskVars, obsVars>>
  /\ UNCHANGED life

\* lines 438-443: exit: mico_rtos_unlock_mutex( &driver->tx_mutex ); return err
TxUnlock(t) ==
  /\ tx_pc[t] = "unlock"
  /\ TaskCanRun
  /\ tx_mutex' = NoTask
  /\ TxGoto(t, "ret")
  /\ UNCHANGED <<rx_size, tx_size, last_transmit_result, last_receive_result,
                 tx_complete, rx_complete, rx_buffer, ring, hwVars, tx_arg,
                 tx_err, rxTaskVars, obsVars>>
  /\ UNCHANGED life

\* the caller has the result and may call again
TxReturn(t) ==
  /\ tx_pc[t] = "ret"
  /\ TaskCanRun
  /\ TxGoto(t, "idle")
  /\ UNCHANGED <<driverVars, ring, hwVars, tx_arg, tx_err, rxTaskVars, obsVars>>
  /\ UNCHANGED life

platform_uart_transmit_bytes(t) ==
  \/ TxCall(t)     \/ TxLock(t)     \/ TxCheck(t)     \/ TxClear(t)
  \/ TxSetResult(t) \/ TxSetSize(t) \/ TxSetDma(t)    \/ TxDmaReq(t)
  \/ TxClearTC(t)  \/ TxStart(t)    \/ TxWait(t)      \/ TxSpin(t)
  \/ TxDmaOff(t)   \/ TxClearSize(t) \/ TxReadResult(t) \/ TxUnlock(t)
  \/ TxReturn(t)

(***************************************************************************)
(* TX hardware: DMA stream (memory to USART DR) and the USART transmitter  *)
(***************************************************************************)

\* the stream serves the USART's TXE request: one item moves to DR; with the
\* last item the stream raises TCIF and disables itself (DMA_Mode_Normal)
HwTxDmaByte ==
  /\ tx_stream.en /\ usart.dmat /\ tx_stream.ndtr > 0 /\ ~usart.busy
  /\ tx_stream' = [tx_stream EXCEPT
                     !.ndtr = @ - 1,
                     !.en = (tx_stream.ndtr - 1 # 0),
                     !.flags = IF tx_stream.ndtr - 1 = 0
                                 THEN @ \cup {"TC"} ELSE @]
  /\ usart' = [usart EXCEPT !.busy = TRUE]
  /\ UNCHANGED <<driverVars, ring, rx_stream, nvic, uart_pending, txTaskVars,
                 rxTaskVars, obsVars>>
  /\ UNCHANGED life

\* the frame has left the shift register; SR.TC is set when the frame is
\* complete and DR was not refilled
HwUsartFrameDone ==
  /\ usart.busy
  /\ usart' = [usart EXCEPT
                 !.busy = FALSE,
                 !.tc = IF tx_stream.en /\ usart.dmat /\ tx_stream.ndtr > 0
                          THEN @ ELSE TRUE]
  /\ UNCHANGED <<driverVars, ring, tx_stream, rx_stream, nvic, uart_pending,
                 txTaskVars, rxTaskVars, obsVars>>
  /\ UNCHANGED life

\* the stream raises an error flag; a transfer error (TEIF) disables the
\* stream, a direct mode or FIFO error does not
HwTxError(f) ==
  /\ tx_stream.en
  /\ f \notin tx_stream.flags
  /\ tx_hist.nerr < MaxTxErrors
  /\ tx_stream' = [tx_stream EXCEPT !.flags = @ \cup {f},
                                    !.en = IF f = "TE" THEN FALSE ELSE @]
  /\ tx_hist' = [tx_hist EXCEPT !.nerr = @ + 1]
  /\ UNCHANGED <<driverVars, ring, rx_stream, usart, nvic, uart_pending,
                 txTaskVars, rxTaskVars, wire, rx_out, rx_hist>>
  /\ UNCHANGED life

(***************************************************************************)
(* platform_uart_tx_dma_irq                                                *)
(***************************************************************************)
\* a handler that ignores the transfer-complete flag
TxIrqResult_IgnoreComplete(flags, last) ==
  IF (flags \cap error_flags) # {} THEN kGeneralErr ELSE last

\* a handler that tests the error flags first and the complete flag last
TxIrqResult_CompleteWins(flags, last) ==
  LET r1 == IF (flags \cap error_flags) # {} THEN kGeneralErr ELSE last
  IN  IF (flags \cap complete_flags) # {} THEN kNoErr ELSE r1

\* lines 711-721: the result the handler records for the pending flags
TxIrqResult(flags, last) ==
  LET r1 == IF (flags \cap complete_flags) # {} THEN kNoErr ELSE last
  IN  IF (flags \cap error_flags) # {} THEN kGeneralErr ELSE r1

\* lines 723-731: signal the waiting task
TxIrqSignal(sem, size) ==
  IF size > 0 THEN mico_rtos_set_semaphore(sem) ELSE sem

platform_uart_tx_dma_irq ==
  /\ TxDmaIrqPending
  /\ last_transmit_result' =
       TxIrqResult(get_dma_irq_status(tx_stream), last_transmit_result)
  /\ tx_stream' = clear_dma_interrupts(tx_stream, complete_flags \cup error_flags)
  /\ tx_complete' = TxIrqSignal(tx_complete, tx_size)
  /\ tx_hist' = [tx_hist EXCEPT
                   !.irqs = MIN(@ + 1, 2),
                   !.tc = @ \/ ("TC" \in tx_stream.flags),
                   !.err = @ \/ ((tx_stream.flags \cap error_flags) # {}),
                   !.last = IF (tx_stream.flags \cap error_flags) # {}
                              THEN "err" ELSE "tc"]
  /\ UNCHANGED <<rx_size, tx_size, last_receive_result, rx_complete, tx_mutex,
                 rx_buffer, ring, rx_stream, usart, nvic, uart_pending,
                 txTaskVars, rxTaskVars, wire, rx_out, rx_hist>>
  /\ UNCHANGED life

(***************************************************************************)
(* Specification of the transmit side                                      *)
(***************************************************************************)
InitTx == platform_uart_init(0) /\ InitTasks

NextTx ==
  \/ \E t \in TxTasks : platform_uart_transmit_bytes(t)
  \/ HwTxDmaByte
  \/ HwUsartFrameDone
  \/ \E f \in error_flags : HwTxError(f)
  \/ platform_uart_tx_dma_irq

SpecTx == InitTx /\ [][NextTx]_vars


\* fairness: a task that can execute its next statement does so, the
\* hardware completes what it started, a pending interrupt is served;
\* nothing obliges the hardware to raise an error
FairSpecTx ==
  /\ SpecTx
  /\ \A t \in TxTasks : WF_vars(platform_uart_transmit_bytes(t))
  /\ WF_vars(HwTxDmaByte)
  /\ WF_vars(HwUsartFrameDone)
  /\ WF_vars(platform_uart_tx_dma_irq)

(***************************************************************************)
(* platform_uart_receive_bytes, statement by statement                     *)
(***************************************************************************)
\* a validation that forgets the size
RxValid_DataOnly == rx_arg.data

\* line 452: require_action( ( data_in != NULL ) && ( expected_data_size != 0 ) )
RxValid == rx_arg.data /\ rx_arg.size # 0

\* the task calls platform_uart_receive_bytes( driver, data_in, size, timeout )
RxCall ==
  /\ life.state = "ready"
  /\ rx_pc = "idle"
  /\ TaskCanRun
  /\ \E d \in BOOLEAN, s \in 0..MaxExpect, to \in Timeouts :
       /\ rx_arg' = [data |-> d, size |-> s, timeout |-> to]
       /\ rx_loc' = [expected |-> s, transfer |-> 0, avail |-> 0, copied |-> 0,
                     cr_en |-> FALSE, err |-> kNoErr]
  /\ rx_pc' = "check"
  \* a buffer of an earlier call is no longer the caller's buffer
  /\ rx_stream' = [rx_stream EXCEPT !.m0ar = IF @ = "cur" THEN "old" ELSE @]
  /\ rx_hist' = [rx_hist EXCEPT !.got = 0, !.errirq = FALSE,
                                !.out0 = Len(rx_out)]
  /\ UNCHANGED <<driverVars, ring, tx_stream, usart, nvic, uart_pending,
                 txTaskVars, wire, rx_out, tx_hist>>
  /\ UNCHANGED life

\* lines 452-454: parameter check, then buffered or direct path
RxCheck ==
  /\ rx_pc = "check"
  /\ TaskCanRun
  /\ IF ~RxValid
       THEN rx_pc' = "ret" /\ rx_loc' = [rx_loc EXCEPT !.err = kParamErr]
       ELSE /\ rx_pc' = IF rx_buffer THEN "loop" ELSE "d_setsize"
            /\ UNCHANGED rx_loc
  /\ UNCHANGED <<driverVars, ring, hwVars, txTaskVars, rx_arg, obsVars>>
  /\ UNCHANGED life

\* line 458: transfer_size = MIN( rx_buffer->size / 2, expected_data_size )
TransferSize(size, expected) == MIN(size \div 2, expected)

\* lines 456-458: while ( expected_data_size != 0 )
RxLoop ==
  /\ rx_pc = "loop"
  /\ TaskCanRun
  /\ IF rx_loc.expected # 0
       THEN /\ rx_loc' = [rx_loc EXCEPT
                            !.transfer = TransferSize(ring.size, rx_loc.expected)]
            /\ rx_pc' = "used"
       ELSE rx_pc' = "ret" /\ UNCHANGED rx_loc
  /\ UNCHANGED <<driverVars, ring, hwVars, txTaskVars, rx_arg, obsVars>>
  /\ UNCHANGED life

\* line 461: if ( transfer_size > ring_buffer_used_space( rx_buffer ) )
RxUsed ==
  /\ rx_pc = "used"
  /\ TaskCanRun
  /\ rx_pc' = IF rx_loc.transfer > ring_buffer_used_space(ring)
                THEN "setresult" ELSE "readresult"
  /\ UNCHANGED <<driverVars, ring, hwVars, txTaskVars, rx_arg, rx_loc, obsVars>>
  /\ UNCHANGED life

\* line 464: driver->last_receive_result = kNoErr
RxSetResult ==
  /\ rx_pc = "setresult"
  /\ TaskCanRun
  /\ last_receive_result' = kNoErr
  /\ rx_pc' = "setsize"
  /\ UNCHANGED <<rx_size, tx_size, last_transmit_result, tx_complete,
                 rx_complete, tx_mutex, rx_buffer, ring, hwVars, txTaskVars,
                 rx_arg, rx_loc, obsVars>>
  /\ UNCHANGED life

\* line 465: driver->rx_size = transfer_size
RxSetSize ==
  /\ rx_pc = "setsize"
  /\ TaskCanRun
  /\ rx_size' = rx_loc.transfer
  /\ rx_pc' = "wait"
  /\ rx_hist' = [rx_hist EXCEPT !.headw = ring.head, !.outw = Len(rx_out),
                                !.sig = 0]
  /\ UNCHANGED <<tx_size, last_transmit_result, last_receive_result,
                 tx_complete, rx_complete, tx_mutex, rx_buffer, ring, hwVars,
                 txTaskVars, rx_arg, rx_loc, wire, rx_out, tx_hist>>
  /\ UNCHANGED life

\* line 468: err = mico_rtos_get_semaphore( &driver->rx_complete, timeout_ms )
\* returning with the token
RxWait ==
  /\ rx_pc = "wait"
  /\ TaskCanRun
  /\ rx_complete > 0
  /\ rx_complete' = rx_complete - 1
  /\ rx_loc' = [rx_loc EXCEPT !.err = kNoErr]
  /\ rx_pc' = "clearsize"
  /\ UNCHANGED <<rx_size, tx_size, last_transmit_result, last_receive_result,
                 tx_complete, tx_mutex, rx_buffer, ring, hwVars, txTaskVars,
                 rx_arg, obsVars>>
  /\ UNCHANGED life

\* line 468: the same call returning because timeout_ms elapsed with no token
RxTimeout ==
  /\ rx_pc = "wait"
  /\ TaskCanRun
  /\ rx_complete = 0
  /\ rx_arg.timeout # "never"
  /\ rx_loc' = [rx_loc EXCEPT !.err = kTimeoutErr]
  /\ rx_pc' = "clearsize"
  /\ rx_hist' = [rx_hist EXCEPT !.timedout = TRUE]
  /\ UNCHANGED <<driverVars, ring, hwVars, txTaskVars, rx_arg, wire, rx_out,
                 tx_hist>>
  /\ UNCHANGED life

\* a receive that leaves the watermark in place after the wait
RxSizeAfterWait_Keep(size) == size

\* line 471: the value written to rx_size after the wait
RxSizeAfterWait(size) == 0

\* line 471: driver->rx_size = 0
RxClearSize ==
  /\ rx_pc = "clearsize"
  /\ TaskCanRun
  /\ rx_size' = RxSizeAfterWait(rx_size)
  /\ rx_pc' = "errcheck"
  /\ UNCHANGED <<tx_size, last_transmit_result, last_receive_result,
                 tx_complete, rx_complete, tx_mutex, rx_buffer, ring, hwVars,
                 txTaskVars, rx_arg, rx_loc, obsVars>>
  /\ UNCHANGED life

\* lines 473-474: if ( err != kNoErr ) goto exit
RxErrCheck ==
  /\ rx_pc = "errcheck"
  /\ TaskCanRun
  /\ rx_pc' = IF rx_loc.err # kNoErr THEN "ret" ELSE "readresult"
  /\ UNCHANGED <<driverVars, ring, hwVars, txTaskVars, rx_arg, rx_loc, obsVars>>
  /\ UNCHANGED life

\* lines 488-489: err = last_receive_result; expected_data_size -= transfer_size
RxReadResult ==
  /\ rx_pc = "readresult"
  /\ TaskCanRun
  /\ rx_loc' = [rx_loc EXCEPT !.err = last_receive_result,
                              !.expected = @ - rx_loc.transfer]
  /\ rx_pc' = "getdata"
  /\ UNCHANGED <<driverVars, ring, hwVars, txTaskVars, rx_arg, obsVars>>
  /\ UNCHANGED life

\* lines 497-498: ring_buffer_get_data( rx_buffer, &available_data,
\* &bytes_available ); bytes_available = MIN( bytes_available, transfer_size ).
\* available_data points at the head cursor, which only this call moves.
RxGetData ==
  /\ rx_pc = "getdata"
  /\ TaskCanRun
  /\ rx_loc' = [rx_loc EXCEPT
                  !.avail = MIN(ring_buffer_get_data(ring), rx_loc.transfer),
                  !.copied = 0]
  /\ rx_pc' = "memcpy"
  /\ UNCHANGED <<driverVars, ring, hwVars, txTaskVars, rx_arg, obsVars>>
  /\ UNCHANGED life

\* the byte memcpy reads next: byte number k behind available_data
RingByte(rb, k) == rb.buffer[rb.head + k]

\* line 499: memcpy( data_in, available_data, bytes_available ), one byte
\* at a time; the DMA stream goes on writing the buffer meanwhile
RxMemcpy ==
  /\ rx_pc = "memcpy"
  /\ TaskCanRun
  /\ rx_loc.copied < rx_loc.avail
  /\ rx_out' = Append(rx_out, RingByte(ring, rx_loc.copied))
  /\ rx_loc' = [rx_loc EXCEPT !.copied = @ + 1]
  /\ UNCHANGED <<driverVars, ring, hwVars, txTaskVars, rx_pc, rx_arg, wire,
                 tx_hist, rx_hist>>
  /\ UNCHANGED life

\* lines 500-501: transfer_size -= bytes_available; data_in += bytes_available
RxAdvance ==
  /\ rx_pc = "memcpy"
  /\ TaskCanRun
  /\ rx_loc.copied = rx_loc.avail
  /\ rx_loc' = [rx_loc EXCEPT !.transfer = @ - rx_loc.avail, !.copied = 0]
  /\ rx_pc' = "consume"
  /\ UNCHANGED <<driverVars, ring, hwVars, txTaskVars, rx_arg, obsVars>>
  /\ UNCHANGED life

\* lines 502-503: ring_buffer_consume; } while ( transfer_size != 0 )
RxConsume ==
  /\ rx_pc = "consume"
  /\ TaskCanRun
  /\ ring' = ring_buffer_consume(ring, rx_loc.avail)
  /\ rx_pc' = IF rx_loc.transfer # 0 THEN "getdata" ELSE "loop"
  /\ UNCHANGED <<driverVars, hwVars, txTaskVars, rx_arg, rx_loc, obsVars>>
  /\ UNCHANGED life

\* lines 510-512: exit: return err; the caller may call again
RxReturn ==
  /\ rx_pc = "ret"
  /\ TaskCanRun
  /\ rx_pc' = "idle"
  /\ UNCHANGED <<driverVars, ring, hwVars, txTaskVars, rx_arg, rx_loc, obsVars>>
  /\ UNCHANGED life

(***************************************************************************)
(* receive_bytes on the direct path (rx_buffer == NULL)                    *)
(***************************************************************************)
\* line 529: driver->rx_size = size
DSetSize ==
  /\ rx_pc = "d_setsize"
  /\ TaskCanRun
  /\ rx_size' = rx_arg.size
  /\ rx_pc' = "d_loadcr"
  /\ UNCHANGED <<tx_size, last_transmit_result, last_receive_result,
                 tx_complete, rx_complete, tx_mutex, rx_buffer, ring, hwVars,
                 txTaskVars, rx_arg, rx_loc, obsVars>>
  /\ UNCHANGED life

\* line 530, stream->CR &= ~DMA_SxCR_CIRC: the load of CR.  Of the bits of
\* CR only EN changes without a store of the program.
DLoadCr ==
  /\ rx_pc = "d_loadcr"
  /\ TaskCanRun
  /\ rx_loc' = [rx_loc EXCEPT !.cr_en = rx_stream.en]
  /\ rx_pc' = "d_storecr"
  /\ UNCHANGED <<driverVars, ring, hwVars, txTaskVars, rx_arg, obsVars>>
  /\ UNCHANGED life

\* line 530: the store of CR with CIRC cleared.  It writes back the EN bit
\* that was loaded: a stream that stopped since the load is enabled again,
\* with the NDTR and the M0AR it stopped with.
DStoreCr ==
  /\ rx_pc = "d_storecr"
  /\ TaskCanRun
  /\ rx_stream' = [rx_stream EXCEPT !.circ = FALSE, !.en = rx_loc.cr_en]
  /\ rx_loc' = [rx_loc EXCEPT !.cr_en = FALSE]
  /\ rx_pc' = "d_clear"
  /\ UNCHANGED <<driverVars, ring, tx_stream, usart, nvic, uart_pending,
                 txTaskVars, rx_arg, obsVars>>
  /\ UNCHANGED life

\* line 533: clear_dma_interrupts( rx stream, complete_flags | error_flags )
DClear ==
  /\ rx_pc = "d_clear"
  /\ TaskCanRun
  /\ rx_stream' = clear_dma_interrupts(rx_stream, complete_flags \cup error_flags)
  /\ rx_pc' = "d_arm"
  /\ UNCHANGED <<driverVars, ring, tx_stream, usart, nvic, uart_pending,
                 txTaskVars, rx_arg, rx_loc, obsVars>>
  /\ UNCHANGED life

\* line 535: stream->NDTR = size.  The register is write-protected by the
\* hardware while the stream is enabled.
DSetNdtr ==
  /\ rx_pc = "d_arm"
  /\ TaskCanRun
  /\ rx_stream' = IF rx_stream.en
                    THEN rx_stream
                    ELSE [rx_stream EXCEPT !.ndtr = rx_arg.size]
  /\ rx_pc' = "d_m0ar"
  /\ UNCHANGED <<driverVars, ring, tx_stream, usart, nvic, uart_pending,
                 txTaskVars, rx_arg, rx_loc, obsVars>>
  /\ UNCHANGED life

\* line 536: stream->M0AR = (uint32_t)data, write-protected in the same way;
\* the stream may have stopped since the store of line 535
DSetM0ar ==
  /\ rx_pc = "d_m0ar"
  /\ TaskCanRun
  /\ rx_stream' = IF rx_stream.en
                    THEN rx_stream
                    ELSE [rx_stream EXCEPT !.m0ar = "cur"]
  /\ rx_pc' = "d_start"
  /\ UNCHANGED <<driverVars, ring, tx_stream, usart, nvic, uart_pending,
                 txTaskVars, rx_arg, rx_loc, obsVars>>
  /\ UNCHANGED life

\* lines 537-538: CR |= DMA_SxCR_EN; USART_DMACmd( port, USART_DMAReq_Rx, ENABLE )
DStart ==
  /\ rx_pc = "d_start"
  /\ TaskCanRun
  /\ rx_stream' = [rx_stream EXCEPT !.en = TRUE]
  /\ usart' = [usart EXCEPT !.dmar = TRUE]
  /\ rx_hist' = [rx_hist EXCEPT !.nerr = 0]
  /\ rx_pc' = "d_wait"
  /\ UNCHANGED <<driverVars, ring, tx_stream, nvic, uart_pending, txTaskVars,
                 rx_arg, rx_loc, wire, rx_out, tx_hist>>
  /\ UNCHANGED life

\* line 540: timeout == 0, the call does not wait
DNoWait ==
  /\ rx_pc = "d_wait"
  /\ TaskCanRun
  /\ rx_arg.timeout = "zero"
  /\ rx_loc' = [rx_loc EXCEPT !.err = kNoErr]
  /\ rx_pc' = "ret"
  /\ UNCHANGED <<driverVars, ring, hwVars, txTaskVars, rx_arg, obsVars>>
  /\ UNCHANGED life

\* line 554: the value receive_bytes returns after the semaphore was taken
DirectResult(sem_result, last) == sem_result

\* line 543: err = mico_rtos_get_semaphore( &driver->rx_complete, timeout )
\* returning with the token
DWait ==
  /\ rx_pc = "d_wait"
  /\ TaskCanRun
  /\ rx_arg.timeout # "zero"
  /\ rx_complete > 0
  /\ rx_complete' = rx_complete - 1
  /\ rx_loc' = [rx_loc EXCEPT !.err = DirectResult(kNoErr, last_receive_result)]
  /\ rx_pc' = "ret"
  /\ UNCHANGED <<rx_size, tx_size, last_transmit_result, last_receive_result,
                 tx_complete, tx_mutex, rx_buffer, ring, hwVars, txTaskVars,
                 rx_arg, obsVars>>
  /\ UNCHANGED life

\* line 543: the same call returning because the timeout elapsed
DTimeout ==
  /\ rx_pc = "d_wait"
  /\ TaskCanRun
  /\ rx_arg.timeout = "finite"
  /\ rx_complete = 0
  /\ rx_loc' = [rx_loc EXCEPT !.err = kTimeoutErr]
  /\ rx_pc' = "ret"
  /\ rx_hist' = [rx_hist EXCEPT !.timedout = TRUE]
  /\ UNCHANGED <<driverVars, ring, hwVars, txTaskVars, rx_arg, wire, rx_out,
                 tx_hist>>
  /\ UNCHANGED life

receive_bytes ==
  \/ DSetSize \/ DLoadCr \/ DStoreCr \/ DClear \/ DSetNdtr \/ DSetM0ar \/ DStart
  \/ DNoWait \/ DWait \/ DTimeout

platform_uart_receive_bytes ==
  \/ RxCall \/ RxCheck \/ RxLoop \/ RxUsed \/ RxSetResult \/ RxSetSize
  \/ RxWait \/ RxTimeout \/ RxClearSize \/ RxErrCheck \/ RxReadResult
  \/ RxGetData \/ RxMemcpy \/ RxAdvance \/ RxConsume \/ RxReturn
  \/ receive_bytes

\* platform_uart_get_length_in_buffer( driver )
platform_uart_get_length_in_buffer == ring_buffer_used_space(ring)

(***************************************************************************)
(* RX hardware                                                             *)
(***************************************************************************)
\* circular mode: the stream moves the received byte from DR to the ring
\* buffer at offset size - NDTR, NDTR counts down and reloads at 0; RXNE
\* raises the USART interrupt.  Byte number k of the line carries value k.
HwRxByte ==
  /\ rx_stream.en /\ rx_stream.circ /\ usart.dmar
  /\ wire < MaxWire
  /\ LET idx  == ring.size - rx_stream.ndtr
         next == IF rx_stream.ndtr = 1 THEN ring.size ELSE rx_stream.ndtr - 1
     IN  /\ ring' = [ring EXCEPT !.buffer[idx] = wire + 1]
         /\ rx_stream' = [rx_stream EXCEPT !.ndtr = next]
         /\ rx_hist' = [rx_hist EXCEPT
                          !.overrun = @ \/ (ring.size - next = ring.head)]
  /\ wire' = wire + 1
  /\ uart_pending' = (uart_pending \/ usart.rxneie)
  /\ UNCHANGED <<driverVars, tx_stream, usart, nvic, txTaskVars, rxTaskVars,
                 rx_out, tx_hist>>
  /\ UNCHANGED life

\* normal mode: the stream moves the received byte to the buffer it was
\* armed with; with the last item it raises TCIF and disables itself
HwRxDmaByte ==
  /\ rx_stream.en /\ ~rx_stream.circ /\ usart.dmar /\ rx_stream.ndtr > 0
  /\ wire < MaxWire
  /\ rx_stream' = [rx_stream EXCEPT
                     !.ndtr = @ - 1,
                     !.en = (rx_stream.ndtr - 1 # 0),
                     !.flags = IF rx_stream.ndtr - 1 = 0
                                 THEN @ \cup {"TC"} ELSE @]
  /\ rx_hist' = [rx_hist EXCEPT
                   !.got = IF rx_stream.m0ar = "cur" THEN @ + 1 ELSE @]
  /\ wire' = wire + 1
  /\ UNCHANGED <<driverVars, ring, tx_stream, usart, nvic, uart_pending,
                 txTaskVars, rxTaskVars, rx_out, tx_hist>>
  /\ UNCHANGED life

\* the stream raises an error flag; a transfer error disables the stream
HwRxError(f) ==
  /\ rx_stream.en /\ ~rx_stream.circ
  /\ f \notin rx_stream.flags
  /\ rx_hist.nerr < MaxRxErrors
  /\ rx_stream' = [rx_stream EXCEPT !.flags = @ \cup {f},
                                    !.en = IF f = "TE" THEN FALSE ELSE @]
  /\ rx_hist' = [rx_hist EXCEPT !.nerr = @ + 1]
  /\ UNCHANGED <<driverVars, ring, tx_stream, usart, nvic, uart_pending,
                 txTaskVars, rxTaskVars, wire, rx_out, tx_hist>>
  /\ UNCHANGED life

(***************************************************************************)
(* platform_uart_irq and platform_uart_rx_dma_irq                          *)
(***************************************************************************)
\* a handler that takes the remaining count itself for the tail
IrqTail_Remaining(size, ndtr) == ndtr % size

\* line 691: rx_buffer->tail = rx_buffer->size - NDTR
\* (uint32_t: negative when NDTR exceeds the size, see U32Mod)
IrqTail(size, ndtr) == size - ndtr

\* line 694: ( rx_size > 0 ) && ( ring_buffer_used_space( rx_buffer ) >= rx_size )
IrqNotify(rb, size) == size > 0 /\ ring_buffer_used_space(rb) >= size

\* a handler that leaves the watermark in place after it has signalled
IrqSizeAfterNotify_Keep(size) == size

\* line 701: driver->rx_size = 0
IrqSizeAfterNotify(size) == 0

platform_uart_irq ==
  /\ UartIrqPending
  /\ uart_pending' = FALSE
  /\ LET rb == [ring EXCEPT !.tail = IrqTail(ring.size, rx_stream.ndtr)]
     IN  /\ ring' = rb
         /\ IF IrqNotify(rb, rx_size)
              THEN /\ rx_complete' = mico_rtos_set_semaphore(rx_complete)
                   /\ rx_size' = IrqSizeAfterNotify(rx_size)
                   \* signals for the watermark registered at line 465
                   /\ rx_hist' = [rx_hist EXCEPT !.sig = MIN(@ + 1, 2)]
              ELSE UNCHANGED <<rx_complete, rx_size, rx_hist>>
  /\ UNCHANGED <<tx_size, last_transmit_result, last_receive_result,
                 tx_complete, tx_mutex, rx_buffer, tx_stream, rx_stream,
                 usart, nvic, txTaskVars, rxTaskVars, wire, rx_out, tx_hist>>
  /\ UNCHANGED life

\* lines 736-746: the result the handler records for the pending flags
RxIrqResult(flags, last) ==
  LET r1 == IF (flags \cap complete_flags) # {} THEN kNoErr ELSE last
  IN  IF (flags \cap error_flags) # {} THEN kGeneralErr ELSE r1

\* lines 748-756: signal the waiting task
RxIrqSignal(sem, size) ==
  IF size > 0 THEN mico_rtos_set_semaphore(sem) ELSE sem

platform_uart_rx_dma_irq ==
  /\ RxDmaIrqPending
  /\ last_receive_result' =
       RxIrqResult(get_dma_irq_status(rx_stream), last_receive_result)
  /\ rx_stream' = clear_dma_interrupts(rx_stream, complete_flags \cup error_flags)
  /\ rx_complete' = RxIrqSignal(rx_complete, rx_size)
  /\ rx_hist' = [rx_hist EXCEPT
                   !.errirq = @ \/ (/\ rx_pc = "d_wait"
                                    /\ rx_arg.timeout # "zero"
                                    /\ (rx_stream.flags \cap error_flags) # {})]
  /\ UNCHANGED <<rx_size, tx_size, last_transmit_result, tx_complete,
                 tx_mutex, rx_buffer, ring, tx_stream, usart, nvic,
                 uart_pending, txTaskVars, rxTaskVars, wire, rx_out, tx_hist>>
  /\ UNCHANGED life

(***************************************************************************)
(* Specification of the receive side, with and without a ring buffer       *)
(***************************************************************************)
InitRx == (\E cap \in 0..MaxRingSize : platform_uart_init(cap)) /\ InitTasks

NextRx ==
  \/ platform_uart_receive_bytes
  \/ HwRxByte
  \/ HwRxDmaByte
  \/ \E f \in error_flags : HwRxError(f)
  \/ platform_uart_irq
  \/ platform_uart_rx_dma_irq

SpecRx == InitRx /\ [][NextRx]_vars

(***************************************************************************)
(* platform_uart_init and platform_uart_deinit as calls                    *)
(***************************************************************************)
\* platform_uart_config_t: the enumerators the switches of lines 187-227
\* accept, and a value outside of the enumeration
Parities     == {"NO_PARITY", "EVEN_PARITY", "ODD_PARITY"}
FlowControls == {"FLOW_CONTROL_DISABLED", "FLOW_CONTROL_CTS",
                 "FLOW_CONTROL_RTS", "FLOW_CONTROL_CTS_RTS"}
BadEnum      == "invalid"

\* the registers of the USART after USART_DeInit (SR.TC resets to 1)
UsartReset == [dmat |-> FALSE, dmar |-> FALSE, tc |-> TRUE, busy |-> FALSE,
               rxneie |-> FALSE]

\* a driver object in zeroed static storage and the hardware after reset,
\* before the first platform_uart_init
InitRaw ==
  /\ rx_size = 0
  /\ tx_size = 0
  /\ last_transmit_result = kNoErr
  /\ last_receive_result = kNoErr
  /\ tx_complete = 0
  /\ rx_complete = 0
  /\ tx_mutex = NoTask
  /\ rx_buffer = FALSE
  /\ ring = [size |-> 0, head |-> 0, tail |-> 0,
             buffer |-> [i \in 0..(-1) |-> 0]]
  /\ tx_stream = ResetStream
  /\ rx_stream = ResetStream
  /\ usart = UsartReset
  /\ nvic = {}
  /\ uart_pending = FALSE
  /\ life = [state |-> "raw", peripheral |-> FALSE, rtos |-> FALSE,
             ue |-> FALSE, given |-> FALSE, inits |-> 0, err |-> kNoErr,
             why |-> "ok", badread |-> FALSE, arg_ring |-> FALSE,
             arg_size |-> 0]

\* the statement at which platform_uart_init leaves: the checks of lines 138
\* and 139, the default cases of the switches of lines 187 and 206, or the
\* end of the function
InitStage(args_ok, given, store, size, parity, flow) ==
  IF ~args_ok THEN "args"
  ELSE IF given /\ ~(store /\ size # 0) THEN "buffer"
  ELSE IF parity \notin Parities THEN "parity"
  ELSE IF flow \notin FlowControls THEN "flow"
  ELSE "ok"

\* the ring buffers a caller can hand to platform_uart_init with a given
\* capacity: a buffer with any cursors (line 313: the driver does not
\* initialise it), or the buffer the driver already refers to, as it is
GivenRings(size) ==
  {[size |-> size, head |-> h, tail |-> t,
    buffer |-> [i \in 0..(size - 1) |-> 0]] :
      h \in 0..(size - 1), t \in 0..(size - 1)}
  \cup (IF rx_buffer /\ ring.size = size THEN {ring} ELSE {})

\* the locals of the last receive call are dead and the observation of the
\* delivered bytes starts over
InitObserver ==
  /\ rx_arg' = [data |-> FALSE, size |-> 0, timeout |-> "never"]
  /\ rx_loc' = [expected |-> 0, transfer |-> 0, avail |-> 0, copied |-> 0,
               cr_en |-> FALSE, err |-> kNoErr]
  /\ rx_out' = <<>>
  /\ rx_hist' = [timedout |-> FALSE, got |-> 0, errirq |-> FALSE,
                 nerr |-> 0, out0 |-> 0, headw |-> 0, outw |-> 0,
                 overrun |-> FALSE, sig |-> 0]
  /\ UNCHANGED <<rx_pc, txTaskVars, wire, tx_hist>>

NoCallInProgress ==
  /\ rx_pc = "idle"
  /\ \A t \in TxTasks : tx_pc[t] = "idle"
  /\ TaskCanRun

\* the values drawn for an argument of platform_uart_init: all of them when
\* the call reads the argument, one of them when it leaves before it does
InitDraw(read, values, one) == IF read THEN values ELSE {one}

\* platform_uart_init( driver, peripheral, config, optional_ring_buffer ),
\* called while no transmit or receive call is in progress.  The call is a
\* sequence of steps, life.state is its position; interrupt handlers and the
\* hardware run between the steps.
\* Lines 136-145: the checks of lines 138 and 139, then rx_size = 0,
\* tx_size = 0, last_transmit_result = kNoErr.
InitCall ==
  /\ life.state \in {"raw", "failed", "down", "ready"}
  /\ life.inits < MaxInits
  /\ NoCallInProgress
  /\ \E args_ok, given \in BOOLEAN :
     \E store \in InitDraw(args_ok /\ given, BOOLEAN, TRUE),
        size \in InitDraw(args_ok /\ given, 0..MaxRingSize, 0) :
       LET stage == InitStage(args_ok, given, store, size,
                              "NO_PARITY", "FLOW_CONTROL_DISABLED")
       IN  IF stage # "ok"
             THEN \* lines 138-139: exit before the driver is touched
                  /\ life' = [life EXCEPT !.state = "failed",
                                          !.inits = @ + 1,
                                          !.err = kParamErr,
                                          !.why = stage,
                                          !.badread = FALSE]
                  /\ UNCHANGED <<driverVars, ring, hwVars>>
             ELSE \* lines 143-145
                  /\ rx_size' = 0
                  /\ tx_size' = 0
                  /\ last_transmit_result' = kNoErr
                  /\ life' = [life EXCEPT !.state = "init_result",
                                          !.inits = @ + 1,
                                          !.arg_ring = given,
                                          !.arg_size = size]
                  /\ UNCHANGED <<last_receive_result, tx_complete,
                                 rx_complete, tx_mutex, rx_buffer, ring,
                                 hwVars>>
  /\ InitObserver

\* line 146: driver->last_receive_result = kNoErr
InitResult ==
  /\ life.state = "init_result"
  /\ TaskCanRun
  /\ last_receive_result' = kNoErr
  /\ life' = [life EXCEPT !.state = "init_rtos"]
  /\ UNCHANGED <<rx_size, tx_size, last_transmit_result, tx_complete,
                 rx_complete, tx_mutex, rx_buffer, ring, hwVars,
                 txTaskVars, rxTaskVars, obsVars>>

\* lines 147-227: driver->peripheral = peripheral, the semaphores and the
\* mutex are initialised (a semaphore starts without a token), then the
\* switches on config->parity and config->flow_control, whose default cases
\* leave with kParamErr
InitConfig ==
  /\ life.state = "init_rtos"
  /\ TaskCanRun
  /\ tx_complete' = 0
  /\ rx_complete' = 0
  /\ tx_mutex' = NoTask
  /\ \E parity \in Parities \cup {BadEnum} :
     \E flow \in InitDraw(parity \in Parities, FlowControls \cup {BadEnum},
                          "FLOW_CONTROL_DISABLED") :
       LET stage == InitStage(TRUE, life.arg_ring, TRUE, life.arg_size,
                              parity, flow)
       IN  IF stage # "ok"
             THEN life' = [life EXCEPT !.state = "failed",
                                       !.peripheral = TRUE,
                                       !.rtos = TRUE,
                                       !.err = kParamErr,
                                       !.why = stage,
                                       !.badread = FALSE,
                                       !.arg_ring = FALSE,
                                       !.arg_size = 0]
             ELSE life' = [life EXCEPT !.state = "init_usart",
                                       !.peripheral = TRUE,
                                       !.rtos = TRUE]
  /\ UNCHANGED <<rx_size, tx_size, last_transmit_result,
                 last_receive_result, rx_buffer, ring, hwVars,
                 txTaskVars, rxTaskVars, obsVars>>

\* lines 231-232: USART_DeInit( port ); USART_Init( port, ... ): every
\* register of the USART at its reset value, the USART disabled
InitUsart ==
  /\ life.state = "init_usart"
  /\ TaskCanRun
  /\ usart' = UsartReset
  /\ uart_pending' = FALSE
  /\ life' = [life EXCEPT !.state = "init_txdma", !.ue = FALSE]
  /\ UNCHANGED <<driverVars, ring, tx_stream, rx_stream, nvic,
                 txTaskVars, rxTaskVars, obsVars>>

\* lines 269-276: DMA_DeInit and DMA_Init of the TX stream
InitTxDma ==
  /\ life.state = "init_txdma"
  /\ TaskCanRun
  /\ tx_stream' = IdleStream
  /\ life' = [life EXCEPT !.state = "init_rxdma"]
  /\ UNCHANGED <<driverVars, ring, rx_stream, usart, nvic, uart_pending,
                 txTaskVars, rxTaskVars, obsVars>>

\* lines 279-286: DMA_DeInit and DMA_Init of the RX stream
InitRxDma ==
  /\ life.state = "init_rxdma"
  /\ TaskCanRun
  /\ rx_stream' = IdleStream
  /\ life' = [life EXCEPT !.state = "init_enable"]
  /\ UNCHANGED <<driverVars, ring, tx_stream, usart, nvic, uart_pending,
                 txTaskVars, rxTaskVars, obsVars>>

\* lines 293-308: NVIC_EnableIRQ for the TX DMA vector, the TX stream's
\* flags cleared and its interrupts enabled, NVIC_EnableIRQ for the USART
\* vector, the USART's TX DMA request off, the USART enabled
InitEnable ==
  /\ life.state = "init_enable"
  /\ TaskCanRun
  /\ nvic' = nvic \cup {"tx_dma", "uart"}
  /\ tx_stream' = [tx_stream EXCEPT !.flags = {},
                                    !.ie = DMA_INTERRUPT_FLAGS]
  /\ usart' = [usart EXCEPT !.dmat = FALSE]
  /\ life' = [life EXCEPT !.state = "init_rxmode", !.ue = TRUE]
  /\ UNCHANGED <<driverVars, ring, rx_stream, uart_pending,
                 txTaskVars, rxTaskVars, obsVars>>

\* lines 311-326.  With a ring buffer, lines 314-316 and, in receive_bytes,
\* lines 519-533: rx_buffer refers to the given buffer, rx_size = 0, the
\* stream is made circular, RXNE interrupts are enabled, the stream's flags
\* are cleared.  Without one, lines 321-325: NVIC_EnableIRQ for the RX DMA
\* vector, flags cleared, the stream's interrupts enabled; init returns.
\* rx_buffer is written only when a buffer is given.
InitRxMode ==
  /\ life.state = "init_rxmode"
  /\ TaskCanRun
  /\ IF life.arg_ring
       THEN /\ rx_buffer' = TRUE
            /\ \E rb \in GivenRings(life.arg_size) : ring' = rb
            /\ rx_size' = 0
            /\ rx_stream' = [rx_stream EXCEPT !.circ = TRUE, !.flags = {}]
            /\ usart' = [usart EXCEPT !.rxneie = TRUE]
            /\ uart_pending' = FALSE
            /\ nvic' = nvic
            /\ life' = [LifeReady(TRUE, life.inits) EXCEPT
                          !.state = "init_ndtr"]
       ELSE /\ nvic' = nvic \cup {"rx_dma"}
            /\ rx_stream' = [rx_stream EXCEPT !.flags = {},
                                              !.ie = DMA_INTERRUPT_FLAGS]
            /\ life' = LifeReady(FALSE, life.inits)
            /\ UNCHANGED <<rx_buffer, ring, rx_size, usart, uart_pending>>
  /\ UNCHANGED <<tx_size, last_transmit_result, last_receive_result,
                 tx_complete, rx_complete, tx_mutex, tx_stream,
                 txTaskVars, rxTaskVars, obsVars>>

\* line 316, receive_bytes( driver, buffer, size, 0 ), line 535:
\* stream->NDTR = size
InitSetNdtr ==
  /\ life.state = "init_ndtr"
  /\ TaskCanRun
  /\ rx_stream' = [rx_stream EXCEPT !.ndtr = ring.size]
  /\ life' = [life EXCEPT !.state = "init_m0ar"]
  /\ UNCHANGED <<driverVars, ring, tx_stream, usart, nvic, uart_pending,
                 txTaskVars, rxTaskVars, obsVars>>

\* line 536: stream->M0AR = (uint32_t)data, the storage of the ring buffer
InitSetM0ar ==
  /\ life.state = "init_m0ar"
  /\ TaskCanRun
  /\ rx_stream' = [rx_stream EXCEPT !.m0ar = "ring"]
  /\ life' = [life EXCEPT !.state = "init_start"]
  /\ UNCHANGED <<driverVars, ring, tx_stream, usart, nvic, uart_pending,
                 txTaskVars, rxTaskVars, obsVars>>

\* lines 537-538: CR |= DMA_SxCR_EN; USART_DMACmd( port, USART_DMAReq_Rx,
\* ENABLE ); timeout is 0, receive_bytes and platform_uart_init return
InitStart ==
  /\ life.state = "init_start"
  /\ TaskCanRun
  /\ rx_stream' = [rx_stream EXCEPT !.en = TRUE]
  /\ usart' = [usart EXCEPT !.dmar = TRUE]
  /\ life' = [life EXCEPT !.state = "ready"]
  /\ UNCHANGED <<driverVars, ring, tx_stream, nvic, uart_pending,
                 txTaskVars, rxTaskVars, obsVars>>

\* a byte arrives while the USART is enabled with RXNE interrupts and the RX
\* stream does not serve it (the stream is not enabled or the USART does
\* not request the DMA): RXNE raises the USART interrupt, the byte is not
\* moved to memory
HwRxByteNoDma ==
  /\ life.ue /\ usart.rxneie
  /\ ~(rx_stream.en /\ usart.dmar)
  /\ wire < MaxWire
  /\ wire' = wire + 1
  /\ uart_pending' = TRUE
  /\ UNCHANGED <<driverVars, ring, tx_stream, rx_stream, usart, nvic,
                 txTaskVars, rxTaskVars, rx_out, tx_hist, rx_hist>>
  /\ UNCHANGED life

\* a deinit that leaves rx_size as it finds it
DeinitRxSize_Keep(old) == old

\* line 385: driver->rx_size = 0
DeinitRxSize(old) == 0

\* lines 363 and 372: the vectors NVIC_DisableIRQ is called for, the TX DMA
\* vector and the RX DMA vector
DeinitNvic(old) == old \ {"tx_dma", "rx_dma"}

\* platform_uart_deinit( driver ).  Line 342 reads driver->peripheral and
\* lines 378-380 hand the semaphores and the mutex to the RTOS: with a
\* peripheral reference or RTOS objects that no init has set, the call
\* operates on whatever the fields hold and either faults or runs to its end.
\* The call is one step: a handler that runs inside it runs before the
\* DMA_DeInit of lines 354-355 and writes only the results, rx_size and the
\* semaphores, which lines 378-388 write after it, or the tail of the ring
\* buffer as it does when it runs before the call.
platform_uart_deinit ==
  /\ life.state \in {"ready", "failed"}
  /\ NoCallInProgress
  /\ IF life.peripheral
       THEN \* lines 345-372
            /\ usart' = UsartReset
            /\ uart_pending' = FALSE
            /\ tx_stream' = ResetStream
            /\ rx_stream' = ResetStream
            /\ nvic' = DeinitNvic(nvic)
       ELSE UNCHANGED hwVars
  /\ \E fault \in (IF life.peripheral /\ life.rtos THEN {FALSE} ELSE BOOLEAN) :
       IF fault
         THEN /\ life' = [life EXCEPT !.state = "fault", !.badread = TRUE]
              /\ UNCHANGED driverVars
         ELSE \* lines 378-388
              /\ tx_complete' = 0
              /\ rx_complete' = 0
              /\ tx_mutex' = NoTask
              /\ rx_size' = DeinitRxSize(rx_size)
              /\ tx_size' = 0
              /\ last_transmit_result' = kNoErr
              /\ last_receive_result' = kNoErr
              /\ UNCHANGED rx_buffer
              /\ life' = [life EXCEPT
                            !.state = "down",
                            !.rtos = FALSE,
                            !.ue = IF life.peripheral THEN FALSE ELSE @,
                            !.err = kNoErr,
                            !.badread = ~(life.peripheral /\ life.rtos)]
  /\ UNCHANGED ring
  /\ InitObserver

InitLife == InitRaw /\ InitTasks

LifeMaxWire == 2   \* bytes the line delivers in one lifecycle behaviour
LifeMaxSize == 2   \* receive sizes 0..LifeMaxSize
LifeMaxRing == 2   \* ring buffer capacities 1..LifeMaxRing

LifeBound ==
  /\ wire <= LifeMaxWire
  /\ rx_arg.size <= LifeMaxSize
  /\ ring.size <= LifeMaxRing
  /\ life.arg_size <= LifeMaxRing

LifeStep ==
  \/ InitCall \/ InitResult \/ InitConfig
  \/ InitUsart \/ InitTxDma \/ InitRxDma \/ InitEnable \/ InitRxMode
  \/ InitSetNdtr \/ InitSetM0ar \/ InitStart
  \/ platform_uart_deinit
  \/ HwRxByteNoDma
  \/ NextRx

NextLife == LifeStep /\ LifeBound'

SpecLife == InitLife /\ [][NextLife]_vars

(***************************************************************************)
(* Claims about transmit                                                   *)
(***************************************************************************)
\* statements executed between lock and unlock of tx_mutex
TxCritical == {"check", "clear", "setresult", "setsize", "setdma", "dmareq",
               "cleartc", "start", "wait", "spin", "dmaoff", "clearsize",
               "readresult", "unlock"}
\* statements that write tx_size, arm or start the TX DMA
TxArming == {"setsize", "setdma", "dmareq", "cleartc", "start"}

\* C1: with concurrent callers at most one transmit is in flight: a task is
\* between lock and unlock only as the holder of tx_mutex, and a task that
\* is about to write tx_size, arm or start the TX DMA finds the previous
\* transfer finished: its TX-DMA interrupt has run and the stream is off.
C1_TransmitSerialized ==
  /\ \A t \in TxTasks : tx_pc[t] \in TxCritical => tx_mutex = t
  /\ \A t \in TxTasks :
       (tx_pc[t] \in TxArming /\ tx_hist.started)
         => (tx_hist.irqs > 0 /\ ~tx_stream.en)

\* C1 witness: a second caller arms its transfer after the first caller's
\* transfer completed and the first caller returned
C1_Witness ==
  \E t, u \in TxTasks :
    /\ t # u
    /\ tx_pc[t] = "ret" /\ TxValid(t) /\ tx_err[t] = kNoErr
    /\ tx_pc[u] = "start" /\ tx_hist.started /\ tx_hist.irqs > 0

\* C6: when the TX-DMA interrupt reports an error flag while a transmit is
\* in flight, the calling task eventually returns from transmit with
\* tx_mutex released: a hardware error never leaves the task blocked
\* forever.  (The claim also fixes the result, general error; already the
\* return itself fails.)
C6_ErrorNeverBlocks ==
  \A t \in TxTasks :
    (tx_pc[t] \in {"wait", "spin"} /\ tx_hist.err)
      ~> (tx_pc[t] = "ret" /\ tx_mutex # t)

\* C7: a valid transmit whose TX-DMA interrupt reported transfer complete
\* and no error returns success; on return tx_size is 0 and tx_mutex is
\* released.
C7_CompleteReturnsSuccess ==
  \A t \in TxTasks :
    /\ (tx_pc[t] = "unlock" /\ TxValid(t) /\ tx_hist.tc
          /\ ~tx_hist.err /\ tx_hist.nerr = 0)
         => (tx_err[t] = kNoErr /\ tx_size = 0)
    /\ tx_pc[t] = "ret" => tx_mutex # t

\* C7 witness: a valid transmit returned after its interrupt reported
\* transfer complete
C7_Witness ==
  \E t \in TxTasks :
    /\ tx_pc[t] = "ret" /\ TxValid(t) /\ tx_err[t] = kNoErr
    /\ tx_hist.started /\ tx_hist.tc /\ ~tx_hist.err /\ tx_size = 0
    /\ tx_mutex = NoTask


(***************************************************************************)
(* Claims about receive                                                    *)
(***************************************************************************)
\* bytes delivered into the caller's buffer by the current receive call
RxDelivered == IF rx_buffer THEN Len(rx_out) - rx_hist.out0 ELSE rx_hist.got

\* C2: once a receive call has returned a timeout error, a later receive
\* call that has to wait returns success only when its own requested bytes
\* have been delivered, whatever interrupt fired or token was left pending
\* in between.
C2_NoEarlyWakeAfterTimeout ==
  (/\ rx_pc = "ret" /\ RxValid /\ rx_loc.err = kNoErr
   /\ rx_hist.timedout
   /\ (rx_buffer \/ rx_arg.timeout # "zero"))
    => RxDelivered = rx_arg.size

\* C3: whenever no receive call is executing (before a call, after a call
\* returned), rx_size is 0.
C3_RxSizeZeroWhenIdle ==
  rx_pc \in {"idle", "ret"} => rx_size = 0

\* C4: no lost wakeup in buffered receive: the wait for a chunk times out
\* only if the ring buffer holds fewer bytes than the chunk at that moment.
C4_NoLostWakeup ==
  [][(rx_pc = "wait" /\ rx_pc' = "clearsize" /\ rx_loc'.err = kTimeoutErr)
       => ring_buffer_used_space(ring) < rx_loc.transfer]_vars

\* C5: in direct mode, when the RX-DMA interrupt reported an error flag
\* while the receive call was waiting, the call returns general error.
C5_DirectErrorReturned ==
  (rx_pc = "ret" /\ ~rx_buffer /\ RxValid /\ rx_hist.errirq)
    => rx_loc.err = kGeneralErr

\* the bytes handed to the caller are the first bytes of the line, in order
RxOutIsStreamPrefix == rx_out = [i \in 1..Len(rx_out) |-> i]

\* a successful buffered receive call has handed over exactly its size
RxCallComplete ==
  (rx_pc = "ret" /\ RxValid /\ rx_loc.err = kNoErr)
    => Len(rx_out) = rx_hist.out0 + rx_arg.size

\* C8 as stated: in buffered mode, for every byte stream, successive receive
\* calls return the bytes of the line in order, none lost, duplicated or
\* reordered, each successful call exactly its size.
C8_ChunkingTransparent_Original ==
  rx_buffer => (RxOutIsStreamPrefix /\ RxCallComplete)

\* C8 amended: the same, as long as the DMA has never caught up with the
\* consumer's head cursor (the unread data never reached the capacity).
C8_ChunkingTransparent ==
  (rx_buffer /\ ~rx_hist.overrun) => (RxOutIsStreamPrefix /\ RxCallComplete)

\* C8 witness: without overrun, a request larger than half the capacity
\* returned successfully after an earlier call, the data having wrapped
\* around the end of the buffer
C8_Witness ==
  /\ rx_buffer /\ ~rx_hist.overrun
  /\ rx_pc = "ret" /\ RxValid /\ rx_loc.err = kNoErr
  /\ rx_arg.size > ring.size \div 2
  /\ rx_hist.out0 > 0
  /\ Len(rx_out) > ring.size

\* C9: in buffered mode a receive that timed out returns with rx_size = 0,
\* has consumed nothing since it started waiting for the chunk that timed
\* out, and when no byte ever arrived the buffer reports 0 bytes available.
C9_TimeoutAbandons ==
  (rx_buffer /\ rx_pc = "ret" /\ rx_loc.err = kTimeoutErr)
    => /\ rx_size = 0
       /\ ring.head = rx_hist.headw
       /\ Len(rx_out) = rx_hist.outw
       /\ (wire = 0 => platform_uart_get_length_in_buffer = 0)

\* C9 witness: a buffered receive returned a timeout error for a later chunk
\* after it had copied an earlier chunk, with bytes of the request remaining
C9_Witness ==
  /\ rx_buffer /\ rx_pc = "ret" /\ RxValid /\ rx_loc.err = kTimeoutErr
  /\ Len(rx_out) > rx_hist.out0
  /\ rx_loc.expected > 0
  /\ rx_size = 0

\* C10: within a direction a transfer is armed and started only when the
\* stream is not running a previously armed transfer.
C10_OneTransferInFlight ==
  /\ rx_pc \in {"d_arm", "d_m0ar", "d_start"} => ~rx_stream.en
  /\ \A t \in TxTasks :
       tx_pc[t] \in {"setdma", "dmareq", "cleartc", "start"} => ~tx_stream.en

(***************************************************************************)
(* Parameter errors                                                        *)
(***************************************************************************)
RxBadArgs == ~rx_arg.data \/ rx_arg.size = 0

\* the statements of a receive call: the steps that move its position or
\* change its locals (the copy of line 499 stays at its position)
RxTaskStep == rx_pc # "idle" /\ (rx_pc' # rx_pc \/ rx_loc' # rx_loc)

\* C11: a receive call with data == NULL or size 0 returns kParamErr and no
\* statement of it changes rx_size, last_receive_result, the RX completion
\* semaphore, the ring buffer, the RX stream or the USART; it never reaches
\* a statement of the buffered or of the direct path.
C11_ReceiveParamError ==
  /\ [](RxBadArgs => rx_pc \in {"idle", "check", "ret"})
  /\ []((RxBadArgs /\ rx_pc = "ret") => rx_loc.err = kParamErr)
  /\ [][(RxBadArgs /\ RxTaskStep)
          => UNCHANGED <<rx_size, last_receive_result, rx_complete, rx_buffer,
                         ring, rx_stream, usart, nvic>>]_vars

\* C11 witness: a call with bad arguments returned kParamErr while the
\* circular RX DMA was running with unread bytes in the ring buffer
C11_Witness ==
  /\ RxBadArgs /\ rx_pc = "ret" /\ rx_loc.err = kParamErr
  /\ rx_buffer /\ rx_stream.en /\ ring.tail # ring.head

TxBadArgs(t) == ~tx_arg[t].data \/ tx_arg[t].size = 0

TxTaskStep(t) == tx_pc'[t] # tx_pc[t] /\ tx_pc[t] # "idle"

\* C12: a transmit call with data == NULL or size 0 returns kParamErr, never
\* reaches a statement that arms the TX DMA, and none of its statements
\* changes tx_size, last_transmit_result, the TX stream or the USART; it
\* holds the mutex from the lock to the exit label, where it unlocks it; a
\* call that has returned, whatever its result, does not hold the mutex.
C12_TransmitParamError ==
  /\ [](\A t \in TxTasks :
          /\ TxBadArgs(t) => tx_pc[t] \in {"idle", "lock", "check", "unlock", "ret"}
          /\ (TxBadArgs(t) /\ tx_pc[t] \in {"unlock", "ret"})
               => tx_err[t] = kParamErr
          /\ (TxBadArgs(t) /\ tx_pc[t] \in {"check", "unlock"}) => tx_mutex = t
          /\ tx_pc[t] \in {"ret", "idle"} => tx_mutex # t)
  /\ [][\A t \in TxTasks :
          (TxBadArgs(t) /\ TxTaskStep(t))
            => UNCHANGED <<tx_size, last_transmit_result, tx_complete,
                           tx_stream, usart>>]_vars

\* C12 witness: a call with bad arguments has returned kParamErr and, while
\* it has not been called again, another task holds the mutex and has armed
\* the DMA
C12_Witness ==
  \E t, u \in TxTasks :
    /\ TxBadArgs(t) /\ tx_pc[t] = "ret" /\ tx_err[t] = kParamErr
    /\ u # t /\ tx_mutex = u /\ tx_pc[u] = "wait"


(***************************************************************************)
(* Transmit completion                                                     *)
(***************************************************************************)
\* the statements after the busy-wait of line 429, up to the unlock
TxAfterSpin(t) ==
  \/ tx_pc[t] \in {"dmaoff", "clearsize", "readresult"}
  \/ (tx_pc[t] = "unlock" /\ ~TxBadArgs(t))

\* SR.TC tells that a frame of the transfer of task t has left the shift
\* register and that the transmitter is idle
TxFrameLeft(t) ==
  usart.tc /\ ~usart.busy /\ tx_stream.ndtr < tx_arg[t].size

\* C18: SR.TC is clear when the DMA is started; while the task waits for the
\* semaphore or for SR.TC the bit is set only by a frame of this transfer;
\* a call is past the wait of line 429, and so has a result other than
\* kParamErr to return, only with the bit set by a frame of this transfer.
C18_TwoStageCompletion ==
  \A t \in TxTasks :
    /\ tx_pc[t] = "start" => ~usart.tc
    /\ (tx_pc[t] \in {"wait", "spin"} /\ usart.tc) => TxFrameLeft(t)
    /\ TxAfterSpin(t) => TxFrameLeft(t)
    /\ (tx_pc[t] = "ret" /\ tx_err[t] # kParamErr) => ~TxBadArgs(t)

\* C18 witness: a second transfer, started with SR.TC left set by the first
\* one, is past the semaphore and past the busy-wait with all its bytes sent
C18_Witness ==
  \E t, u \in TxTasks :
    /\ t # u
    /\ tx_pc[u] = "ret" /\ ~TxBadArgs(u) /\ tx_err[u] = kNoErr
    /\ tx_pc[t] = "readresult" /\ tx_hist.irqs > 0 /\ tx_hist.tc
    /\ tx_stream.ndtr = 0

(***************************************************************************)
(* Completion tokens and result fields                                     *)
(***************************************************************************)
TxIdle == \A t \in TxTasks : tx_pc[t] \in {"idle", "ret"}

RxIdle == rx_pc \in {"idle", "ret"}

\* C19: each completion semaphore holds at most one token, and holds none
\* while no call of its direction is in progress.
C19_NoTokenWhenIdle ==
  /\ tx_complete \in {0, 1} /\ rx_complete \in {0, 1}
  /\ TxIdle => tx_complete = 0
  /\ RxIdle => rx_complete = 0

\* The two directions share no field of the driver (transmit uses tx_size,
\* last_transmit_result, tx_complete and tx_mutex, receive uses rx_size,
\* last_receive_result, rx_complete and rx_buffer), but they share the USART,
\* the interrupt controller and the processor.  SpecDuplex runs one transmit
\* caller and the receive caller together from the state after
\* platform_uart_init with or without ring buffer: the statements, hardware
\* events and handlers of both directions interleave freely.
DuplexMaxWire   == 1   \* bytes the line delivers in one duplex behaviour
DuplexMaxSize   == 1   \* transmit and receive sizes 0..DuplexMaxSize
DuplexMaxErrors == 1   \* DMA error events per transfer and direction
DuplexMaxRing   == 2   \* ring buffer capacities 1..DuplexMaxRing

DuplexBound ==
  /\ wire <= DuplexMaxWire
  /\ rx_arg.size <= DuplexMaxSize
  /\ \A t \in TxTasks : tx_arg[t].size <= DuplexMaxSize
  /\ rx_hist.nerr <= DuplexMaxErrors
  /\ tx_hist.nerr <= DuplexMaxErrors
  /\ ring.size <= DuplexMaxRing

DuplexTx ==
  \/ platform_uart_transmit_bytes(1)
  \/ HwTxDmaByte
  \/ HwUsartFrameDone
  \/ \E f \in error_flags : HwTxError(f)
  \/ platform_uart_tx_dma_irq

InitDuplex == InitRx /\ DuplexBound

NextDuplex == (DuplexTx \/ NextRx) /\ DuplexBound'

SpecDuplex == InitDuplex /\ [][NextDuplex]_vars

\* C20 as stated: no statement of a transmit or receive call changes
\* last_transmit_result or last_receive_result.
C20_ResultsWrittenByHandlersOnly ==
  [][((\E t \in TxTasks : TxTaskStep(t)) \/ RxTaskStep)
       => UNCHANGED <<last_transmit_result, last_receive_result>>]_vars

\* C20 amended: the only statements of a call that change a result field are
\* the preset of last_transmit_result to kGeneralErr before the DMA is armed
\* (line 411) and the preset of last_receive_result to kNoErr before the
\* buffered wait (line 464).
C20_ResultsPresetByTask ==
  [][/\ \A t \in TxTasks :
          TxTaskStep(t) =>
            /\ UNCHANGED last_receive_result
            /\ \/ UNCHANGED last_transmit_result
               \/ tx_pc[t] = "setresult" /\ last_transmit_result' = kGeneralErr
     /\ RxTaskStep =>
          /\ UNCHANGED last_transmit_result
          /\ \/ UNCHANGED last_receive_result
             \/ rx_pc = "setresult" /\ last_receive_result' = kNoErr]_vars

\* C20 witness: after a transfer that completed with TCIF and no error, so
\* with last_transmit_result = kNoErr, the next transmit call is past line
\* 411 with last_transmit_result at kGeneralErr, while a buffered receive
\* that was woken for the byte of the line is past line 464 and copies it
C20_Witness ==
  /\ tx_pc[1] = "setsize" /\ last_transmit_result = kGeneralErr
  /\ tx_hist.started /\ tx_hist.tc /\ ~tx_hist.err /\ tx_hist.nerr = 0
  /\ tx_stream.flags = {}
  /\ rx_buffer /\ rx_pc = "memcpy" /\ rx_hist.sig = 1 /\ wire = 1

(***************************************************************************)
(* Lifecycle: platform_uart_init and platform_uart_deinit                  *)
(***************************************************************************)
FieldsIdle ==
  /\ rx_size = 0
  /\ tx_size = 0
  /\ last_transmit_result = kNoErr
  /\ last_receive_result = kNoErr

\* C13: a deinit that follows a successful init, with or without ring
\* buffer, returns kNoErr and leaves rx_size = 0, tx_size = 0 and both
\* results at kNoErr, whatever happened in between.
C13_InitDeinitIdle ==
  (life.state = "down" /\ life.why = "ok") => (life.err = kNoErr /\ FieldsIdle)

\* C13 witness: the first init, given a ring buffer, was followed by a
\* deinit before any byte arrived
C13_Witness ==
  /\ life.state = "down" /\ life.why = "ok" /\ life.inits = 1
  /\ life.given /\ ring.size = LifeMaxRing /\ wire = 0
  /\ FieldsIdle

\* the statements of the buffered path of platform_uart_receive_bytes
RxBufferedPath ==
  {"loop", "used", "setresult", "setsize", "wait", "clearsize", "errcheck",
   "readresult", "getdata", "memcpy", "consume"}

\* C14: when the most recent successful init was given no ring buffer, a
\* receive call never executes a statement of the buffered path.
C14_ModeFollowsLastInit ==
  (life.state = "ready" /\ ~life.given) => rx_pc \notin RxBufferedPath

\* the hardware as the claim describes it after a successful init; an
\* interrupt is enabled when NVIC_EnableIRQ has enabled its vector and no
\* NVIC_DisableIRQ has disabled it since
PostInit ==
  /\ {"uart", "tx_dma"} \subseteq nvic
  /\ IF life.given
       THEN /\ rx_stream.circ /\ rx_stream.en /\ usart.dmar
            /\ rx_stream.ndtr = ring.size /\ rx_stream.m0ar = "ring"
            /\ usart.rxneie
            /\ "rx_dma" \notin nvic
       ELSE /\ ~rx_stream.en /\ ~usart.dmar
            /\ ~usart.rxneie
            /\ "rx_dma" \in nvic

\* the step with which a platform_uart_init returns kNoErr
InitReturnsOk == life'.state = "ready" /\ life' # life

\* C15: a platform_uart_init that returns kNoErr leaves the UART interrupt
\* and the TX DMA interrupt enabled; given a ring buffer, the RX stream
\* circular over the whole buffer and started, RXNE interrupts enabled and
\* the RX DMA interrupt not enabled; given none, the RX stream idle, RXNE
\* interrupts not enabled and the RX DMA interrupt enabled.
C15_InitInterrupts == [][InitReturnsOk => PostInit']_vars

\* C16: after a deinit that followed a successful init and returned kNoErr,
\* the UART vector, the RXNE interrupt, the TX DMA interrupt and the RX DMA
\* interrupt are disabled.
C16_DeinitDisablesInterrupts ==
  (life.state = "down" /\ life.why = "ok" /\ life.err = kNoErr)
    => /\ nvic \cap {"uart", "tx_dma", "rx_dma"} = {}
       /\ ~usart.rxneie
       /\ tx_stream.ie = {} /\ rx_stream.ie = {}

\* C17: a deinit that follows an init that returned kParamErr completes,
\* returns kNoErr, leaves rx_size, tx_size zero and both results kNoErr, and
\* has not used a peripheral reference, semaphore or mutex that is not set.
C17_DeinitAfterFailedInit ==
  (life.state \in {"down", "fault"} /\ life.why # "ok")
    => /\ life.state = "down" /\ life.err = kNoErr
       /\ FieldsIdle
       /\ ~life.badread

(***************************************************************************)
(* The chunk loop of the buffered receive                                  *)
(***************************************************************************)
\* C21: in buffered mode every iteration of the chunk loop of lines 456-504
\* takes a chunk of at least one byte and of at most the remaining count, so
\* that the remaining count decreases with every iteration.
C21_ChunkLoopProgress ==
  (rx_buffer /\ rx_pc = "used")
    => (rx_loc.transfer >= 1 /\ rx_loc.transfer <= rx_loc.expected)

\* a run of platform_uart_irq: the pending UART interrupt is taken
UartIrqRuns == UartIrqPending /\ ~uart_pending'

\* C22: a run of platform_uart_irq signals rx_complete exactly when
\* rx_size > 0 and the used space, with the tail recomputed from NDTR, is at
\* least rx_size, and then leaves rx_size = 0; otherwise it changes neither.
\* For each watermark registered at line 465 the handler signals at most once.
C22_IrqSignalsOncePerWatermark ==
  /\ [](rx_hist.sig <= 1)
  /\ [][UartIrqRuns =>
          IF rx_size > 0 /\ ring_buffer_used_space(ring') >= rx_size
            THEN rx_size' = 0 /\ rx_complete' = 1
            ELSE UNCHANGED <<rx_size, rx_complete>>]_vars

\* C22 witness: the handler has signalled once for the registered watermark
\* and cleared it, the task has not taken the token yet, and the tail the
\* handler computed is beyond the watermark
C22_Witness ==
  /\ rx_buffer /\ rx_pc = "wait" /\ rx_hist.sig = 1
  /\ rx_size = 0 /\ rx_complete = 1
  /\ ring_buffer_used_space(ring) > rx_loc.transfer

\* C23: in buffered mode, as long as the DMA has never caught up with the
\* head cursor, whenever the copy loop of lines 492-503 fetches data the
\* used space of the ring buffer is at least what is left of the chunk, and
\* the chunk is at most half the capacity.
C23_CopyOnlyPresentData ==
  (rx_buffer /\ ~rx_hist.overrun /\ rx_pc = "getdata")
    => /\ ring_buffer_used_space(ring) >= rx_loc.transfer
       /\ 2 * rx_loc.transfer <= ring.size

(***************************************************************************)
(* The result of a transmit                                                *)
(***************************************************************************)
\* a run of platform_uart_tx_dma_irq: the pending flags are taken
TxDmaIrqRuns == TxDmaIrqPending /\ tx_stream'.flags = {}

\* C24: a valid transmit reads kNoErr at line 436 only if, since it started
\* its DMA, a run of platform_uart_tx_dma_irq found the complete flag and the
\* latest run found no error flag; a run that finds the complete flag
\* together with an error flag records kGeneralErr.
C24_ResultNeverStale ==
  /\ [](\A t \in TxTasks :
          (tx_pc[t] = "unlock" /\ ~TxBadArgs(t) /\ tx_err[t] = kNoErr)
            => (tx_hist.started /\ tx_hist.tc /\ tx_hist.last = "tc"))
  /\ [][(/\ TxDmaIrqRuns
         /\ (tx_stream.flags \cap complete_flags) # {}
         /\ (tx_stream.flags \cap error_flags) # {})
          => last_transmit_result' = kGeneralErr]_vars

\* C24 witness: the only interrupt run of a transfer found the complete
\* flag together with an error flag, after an earlier transfer had recorded
\* kNoErr, and the call has read kGeneralErr
C24_Witness ==
  \E t, u \in TxTasks :
    /\ t # u
    /\ tx_pc[u] = "ret" /\ ~TxBadArgs(u) /\ tx_err[u] = kNoErr
    /\ tx_pc[t] = "unlock" /\ ~TxBadArgs(t) /\ tx_err[t] = kGeneralErr
    /\ tx_hist.irqs = 1 /\ tx_hist.tc /\ tx_hist.last = "err"

=============================================================================
